---- MODULE Spec2Model ----
(***************************************************************************)
(* Model of fetch_crypto_data.py: the previous-day candle fetcher.         *)
(*                                                                         *)
(*   fetch_all_data  ->  fetch_candle_data_with_retry  ->                  *)
(*   _fetch_single_batch  ->  transport (proxied make_request, or the      *)
(*   direct client session)                                                *)
(*                                                                         *)
(* The program is one sequential thread.  Every transport request is one   *)
(* step of the model; the code that runs between two requests belongs to   *)
(* the step of the request before it.  Times are epoch milliseconds.       *)
(***************************************************************************)
EXTENDS Integers, Sequences, FiniteSets, TLC

(***************************************************************************)
(* Bounds of the model (not program constants).                            *)
(***************************************************************************)
\* Windows of SpecFetch span up to MaxSpans whole batch spans (plus a rest).
MaxSpans == 2
\* Windows of SpecFetch start at 0..MaxStartOffset ms after an interval edge.
MaxStartOffset == 1
\* Largest timestamp the windows of SpecFetch may make the code compute.
MaxMs == 2000000000
\* fetch_all_data runs at an instant of day 1..MaxDay after the epoch.
MaxDay == 1
\* get_previous_day_timestamps on its own runs on day 1..MaxClockDay.
MaxClockDay == 3

(***************************************************************************)
(* Program constants.                                                      *)
(***************************************************************************)
max_custom_retries == 3
custom_retry_delay == 5
PageLimit == 1000
MsPerMinute == 60000
MsPerDay == 86400000
ProxyExceptionCode == -1
RetryableCodes == {10006, 10002, 30034, 30035, 130035, 130150}

\* self.intervals, in dict order (keys), and self.categories (keys, values).
intervals == <<"1", "3", "5", "15", "30", "60", "120", "240", "360", "720">>
categories == <<"spot", "perpetual">>
category_value == [c \in {"spot", "perpetual"} |->
                     IF c = "spot" THEN "spot" ELSE "linear"]

interval_map ==
  ("1" :> 1) @@ ("3" :> 3) @@ ("5" :> 5) @@ ("15" :> 15) @@ ("30" :> 30) @@
  ("60" :> 60) @@ ("120" :> 120) @@ ("240" :> 240) @@ ("360" :> 360) @@
  ("720" :> 720)

\* interval_map.get(interval, 1)
get_interval_minutes(interval) ==
  IF interval \in DOMAIN interval_map THEN interval_map[interval] ELSE 1

Min(a, b) == IF a < b THEN a ELSE b

(***************************************************************************)
(* Responses.  A response is Python's None or a dict with retCode and      *)
(* result.list (retMsg is only logged).                                    *)
(***************************************************************************)
None == [none |-> TRUE]
Response(code, list) == [retCode |-> code, list |-> list]

\* `response and response.get('retCode') == 0`
IsOk(response) == response # None /\ response.retCode = 0

(***************************************************************************)
(* The provider and the network.  A label the table does not know ("D",    *)
(* daily) is one the provider knows.  The provider holds one candle per    *)
(* interval edge and answers an accepted request with the candles whose    *)
(* open time lies in [start, end], ascending, or with an empty list.       *)
(***************************************************************************)
ProviderMinutes(interval) ==
  IF interval \in DOMAIN interval_map THEN interval_map[interval] ELSE 1440

CandlesIn(interval, start, end) ==
  LET im    == ProviderMinutes(interval) * MsPerMinute
      first == ((start + im - 1) \div im) * im
      n     == IF first > end THEN 0 ELSE (end - first) \div im + 1
  IN  [i \in 1..n |-> first + (i - 1) * im]

FatalCodes == {10001}
HttpErrors == {429, 502}

\* What the network does with one request: a JSON body with HTTP 200 (an
\* envelope, or null), a non-200 status, or an exception (timeout, DNS, ...).
KlineOutcomes(interval, start, end) ==
  {[kind |-> "json", status |-> 200,
    body |-> Response(0, l)] : l \in {CandlesIn(interval, start, end), <<>>}}
  \cup {[kind |-> "json", status |-> 200, body |-> Response(c, <<>>)] :
          c \in RetryableCodes \cup FatalCodes}
  \cup {[kind |-> "json", status |-> 200, body |-> None]}
  \cup {[kind |-> "http", status |-> s, body |-> None] : s \in HttpErrors}
  \cup {[kind |-> "exception", status |-> 0, body |-> None]}

(***************************************************************************)
(* Transport.  A call either returns a response or raises.                 *)
(***************************************************************************)
Returned(response) == [raised |-> FALSE, response |-> response]
Raised == [raised |-> TRUE, response |-> None]

\* ProxiedHTTPManager.make_request: never raises.
make_request(net) ==
  IF net.kind = "exception"
    THEN Response(ProxyExceptionCode, <<>>)
    ELSE IF net.status = 200
           THEN net.body
           ELSE Response(net.status, <<>>)

\* fetch_candle_data_via_proxy
fetch_candle_data_via_proxy(net) == make_request(net)

\* self.session.get_kline / get_server_time of the direct client: it returns
\* the provider's body, and surfaces a non-200 status or a transport error
\* as an exception.
session_call(net) ==
  IF net.kind = "json" THEN Returned(net.body) ELSE Raised

TransportCall(proxy, net) ==
  IF proxy THEN Returned(fetch_candle_data_via_proxy(net)) ELSE session_call(net)

\* A probe that always goes to the provider directly.
ProbeTransport_AlwaysDirect(proxy) == "direct"

\* test_server_time: `if self.use_proxy: ... else: ...`
ProbeTransport(proxy) == IF proxy THEN "relayed" ELSE "direct"

\* _fetch_single_batch: `if self.use_proxy: ... else: ...`
KlineTransport(proxy) == IF proxy THEN "relayed" ELSE "direct"

\* The network's answers to the connectivity probe (GET /v5/market/time).
ProbeOutcomes ==
  {[kind |-> "json", status |-> 200, body |-> Response(c, <<>>)] :
     c \in {0} \cup RetryableCodes \cup FatalCodes}
  \cup {[kind |-> "http", status |-> s, body |-> None] : s \in HttpErrors}
  \cup {[kind |-> "exception", status |-> 0, body |-> None]}

(***************************************************************************)
(* get_previous_day_timestamps.  `now` is in epoch milliseconds; the date   *)
(* label is the number of the day since the epoch, which strftime's         *)
(* '%Y-%m-%d' names one to one.  microsecond=999000 is 999 ms.              *)
(***************************************************************************)
\* A rolling 24 hour window that ends just before `now`.
get_previous_day_timestamps_Rolling(now) ==
  [date_str   |-> (now - MsPerDay) \div MsPerDay,
   start_time |-> now - MsPerDay,
   end_time   |-> now - 1]

get_previous_day_timestamps(now) ==
  LET yesterday_utc == now - MsPerDay
      day           == yesterday_utc \div MsPerDay
      start_of_day  == day * MsPerDay
  IN  [date_str   |-> day,
       start_time |-> start_of_day,
       end_time   |-> start_of_day + 23 * 3600000 + 59 * 60000 + 59 * 1000 + 999]

\* The instants fetch_all_data may run at.
Nows == {d * MsPerDay + t : d \in 1..MaxDay, t \in {0, MsPerDay - 1}}

(***************************************************************************)
(* save_data_efficiently (Persistence Sink): writes a non-empty series and  *)
(* returns True; returns False for an empty one, and when writing raises.   *)
(***************************************************************************)
\* A sink that writes a file for an empty series too.
save_data_efficiently_WritesEmpty(candles_data, ioOk) == ioOk

\* `if not candles_data: return False`; ioOk: the write did not raise.
save_data_efficiently(candles_data, ioOk) ==
  IF candles_data # <<>> THEN ioOk ELSE FALSE

(***************************************************************************)
(* State.                                                                  *)
(***************************************************************************)
VARIABLES
  use_proxy,      \* self.use_proxy, fixed by __init__
  \* fetch_all_data (Fetch Orchestrator)
  opc,            \* "idle" | "start" | "loop" | "fetching" | "done" | "raised"
  probe,          \* "none" | "ok" | "failed" | "raised": test_server_time
  date_str, start_time, end_time,  \* the window of the run
  ci, ii,         \* position in self.categories and self.intervals (1-based)
  success_count,
  runResult,      \* "none" until fetch_all_data returns, then "True" or "False"
  fetchLog,       \* <<category, interval>> of every Pagination Controller call
  sinkCount,      \* calls of save_data_efficiently
  sinkFailures,   \* those that returned False
  failCount,      \* window fetches that returned None
  intervalDelays, \* time.sleep(0.2) of the inner loop
  categoryDelays, \* time.sleep(0.5) of the outer loop
  now_utc,        \* get_previous_day_timestamps' reading of the clock, while
                  \* that call is under way on its own (SpecWindow); 0 otherwise
  klineIssued,    \* a kline request has been sent in this run
  categoryBatchCalls, \* calls of _fetch_single_batch in the category in hand
  transports,     \* the transport variants requests went through in this run
  exitStatus,     \* "running" until main exits the process, then "0" or "1"
  lastSink,       \* the sink call for the pair just handled: "skipped" (no
                  \* call), "empty" (an empty series), "saved" or "unsaved";
                  \* "none" while a fetch is under way
  \* fetch_candle_data_with_retry (Pagination Controller)
  ppc,            \* "idle" | "entry" | "single" | "paged" | "Success" | "Failure"
  p_interval, p_start, p_end,      \* its arguments
  current_start, current_end,      \* the loop's cursor and sub-window end
  all_candles,                     \* the accumulator
  fetchResult,                     \* its return value
  batchCalls,                      \* <<start, end>> of every Batch Fetcher call
  batchPacing,                     \* number of time.sleep(0.2) of the loop
  \* _fetch_single_batch (Batch Fetcher)
  bpc,            \* "idle" | "Requesting" | "Succeeded" | "Failed"
  attempt,        \* the for loop's variable, 0-based
  b_start, b_end, \* its arguments
  batchResult,    \* its return value
  requests,       \* transport requests of this call
  delays,         \* time.sleep(custom_retry_delay) of this call
  slept,          \* seconds slept by this call
  responses,      \* what each request of this call met
  lastKind        \* how the last request of this call ended at the network

fetchVars == <<ppc, p_interval, p_start, p_end, current_start, current_end,
               all_candles, fetchResult, batchCalls, batchPacing>>
batchVars == <<bpc, attempt, b_start, b_end, batchResult, requests, delays,
               slept, responses, lastKind>>
runVars == <<opc, probe, date_str, start_time, end_time, ci, ii, success_count,
             runResult, fetchLog, sinkCount, sinkFailures, failCount,
             intervalDelays, categoryDelays, exitStatus, lastSink>>
vars == <<use_proxy, now_utc, klineIssued, categoryBatchCalls, transports,
          runVars, fetchVars, batchVars>>

(***************************************************************************)
(* _fetch_single_batch                                                     *)
(***************************************************************************)
\* What a request met, as the claims name it.
ClassOf(call) ==
  IF call.raised THEN "raised"
  ELSE IF IsOk(call.response) THEN "ok"
  ELSE IF call.response # None /\ call.response.retCode \in RetryableCodes
         THEN "retryable"
         ELSE "fatal"

\* A retry on every error response, whatever its code.
IsRetryable_AnyError(response) == response # None

\* `error_code in [10006, ...]`; error_code is 'No response' for a falsy one.
IsRetryable(response) ==
  response # None /\ response.retCode \in RetryableCodes

\* A retry after the last attempt too.
AttemptsRemain_Always(a) == TRUE

\* One attempt fewer than the code allows.
AttemptsRemain_OneFewer(a) == a < max_custom_retries - 2

\* `attempt < self.max_custom_retries - 1`
AttemptsRemain(a) == a < max_custom_retries - 1

\* An exception that ends the call at once.
AttemptsRemainAfterException_Never(a) == FALSE

\* The except branch's own `attempt < self.max_custom_retries - 1`
AttemptsRemainAfterException(a) == a < max_custom_retries - 1

\* The caller's call: the state before the loop's first iteration.
StartBatch(start, end) ==
  /\ bpc' = "Requesting"
  /\ attempt' = 0
  /\ b_start' = start
  /\ b_end' = end
  /\ batchResult' = None
  /\ requests' = 0
  /\ delays' = 0
  /\ slept' = 0
  /\ responses' = <<>>
  /\ lastKind' = "none"
  /\ categoryBatchCalls' = categoryBatchCalls + 1

\* time.sleep(self.custom_retry_delay); continue
RetryAfterDelay ==
  /\ delays' = delays + 1
  /\ slept' = slept + custom_retry_delay
  /\ attempt' = attempt + 1
  /\ bpc' = "Requesting"
  /\ batchResult' = None

ReturnFromBatch(response) ==
  /\ bpc' = IF response = None THEN "Failed" ELSE "Succeeded"
  /\ batchResult' = response
  /\ UNCHANGED <<attempt, delays, slept>>

\* One iteration of `for attempt in range(self.max_custom_retries)`.
fetch_single_batch ==
  /\ bpc = "Requesting"
  /\ attempt < max_custom_retries
  /\ \E net \in KlineOutcomes(p_interval, b_start, b_end) :
       LET via  == KlineTransport(use_proxy)
           call == TransportCall(via = "relayed", net)
       IN
         /\ requests' = requests + 1
         /\ transports' = transports \cup {via}
         /\ klineIssued' = TRUE
         /\ responses' = Append(responses, ClassOf(call))
         /\ lastKind' = net.kind
         /\ IF call.raised
              THEN IF AttemptsRemainAfterException(attempt)
                     THEN RetryAfterDelay
                     ELSE ReturnFromBatch(None)
              ELSE IF IsOk(call.response)
                     THEN ReturnFromBatch(call.response)
                     ELSE IF IsRetryable(call.response) /\ AttemptsRemain(attempt)
                            THEN RetryAfterDelay
                            ELSE ReturnFromBatch(None)
  /\ UNCHANGED <<use_proxy, now_utc, categoryBatchCalls, runVars, fetchVars,
                 b_start, b_end>>

(***************************************************************************)
(* fetch_candle_data_with_retry                                            *)
(***************************************************************************)
\* The window's minutes taken for its candles, whatever the interval.
candles_needed_InMinutes(interval, start, end) == (end - start) \div MsPerMinute

\* candles_needed, as the code computes it
candles_needed(interval, start, end) ==
  LET interval_minutes == get_interval_minutes(interval)
      total_minutes    == (end - start) \div MsPerMinute
  IN  total_minutes \div interval_minutes

\* A strict comparison with the page limit.
SingleRequestSufficient_Strict(needed) == needed < PageLimit

\* `if candles_needed <= 1000`
SingleRequestSufficient(needed) == needed <= PageLimit

\* A batch span one candle short of the page limit.
batch_size_ms_OneShort(interval_minutes) ==
  (PageLimit - 1) * interval_minutes * MsPerMinute

\* batch_size_ms = 1000 * interval_minutes * 60 * 1000
batch_size_ms(interval_minutes) == PageLimit * interval_minutes * MsPerMinute

\* A sub-window end that forgets the batch span: the cursor never moves.
SubWindowEnd_Stuck(cursor, size, end) == Min(cursor, end)

\* A sub-window end that is not clamped to the window's end.
SubWindowEnd_Unclamped(cursor, size, end) == cursor + size

\* current_end = min(current_start + batch_size_ms, end_time)
SubWindowEnd(cursor, size, end) == Min(cursor + size, end)

\* The combined result of the paginated path.
CombinedResult(candles) == Response(0, candles)

\* The candles gathered so far, returned as if the window had succeeded.
PartialFailureResult_Partial(candles) == [retCode |-> 0, list |-> candles]

\* What the paginated path returns when a batch failed.
PartialFailureResult(candles) == None

\* Entry: lines 211-219 (single) or 211-231 (paginated), up to the first call.
fetch_candle_data_with_retry ==
  /\ ppc = "entry"
  /\ all_candles' = <<>>
  /\ batchPacing' = 0
  /\ fetchResult' = None
  /\ IF SingleRequestSufficient(candles_needed(p_interval, p_start, p_end))
       THEN /\ ppc' = "single"
            /\ StartBatch(p_start, p_end)
            /\ batchCalls' = <<<<p_start, p_end>>>>
            /\ UNCHANGED <<current_start, current_end>>
       ELSE LET size == batch_size_ms(get_interval_minutes(p_interval))
                cend == SubWindowEnd(p_start, size, p_end)
            IN  \* candles_needed > 1000 gives start < end: the loop is entered
                /\ ppc' = "paged"
                /\ current_start' = p_start
                /\ current_end' = cend
                /\ StartBatch(p_start, cend)
                /\ batchCalls' = <<<<p_start, cend>>>>
  /\ UNCHANGED <<use_proxy, now_utc, klineIssued, transports, runVars, p_interval,
                 p_start, p_end>>

\* Lines 219-222: the single batch has returned.
SingleBatchReturn ==
  /\ ppc = "single"
  /\ bpc \in {"Succeeded", "Failed"}
  /\ fetchResult' = IF IsOk(batchResult) THEN batchResult ELSE None
  /\ ppc' = IF IsOk(batchResult) THEN "Success" ELSE "Failure"
  /\ bpc' = "idle"
  /\ UNCHANGED <<use_proxy, now_utc, categoryBatchCalls, klineIssued, transports,
                 runVars, p_interval, p_start, p_end,
                 current_start, current_end, all_candles, batchCalls, batchPacing,
                 attempt, b_start, b_end, batchResult, requests, delays,
                 slept, responses, lastKind>>

\* Lines 231-250: a batch of the loop has returned; the rest of the iteration,
\* and either the next iteration up to its call or the return after the loop.
PaginationStep ==
  /\ ppc = "paged"
  /\ bpc \in {"Succeeded", "Failed"}
  /\ IF IsOk(batchResult)
       THEN LET candles == all_candles \o batchResult.list
                size    == batch_size_ms(get_interval_minutes(p_interval))
                cend    == SubWindowEnd(current_end, size, p_end)
            IN  /\ all_candles' = candles
                /\ current_start' = current_end
                /\ batchPacing' = batchPacing + 1
                /\ IF current_end < p_end
                     THEN /\ current_end' = cend
                          /\ StartBatch(current_end, cend)
                          /\ batchCalls' = Append(batchCalls, <<current_end, cend>>)
                          /\ UNCHANGED <<ppc, fetchResult>>
                     ELSE /\ ppc' = "Success"
                          /\ fetchResult' = CombinedResult(candles)
                          /\ bpc' = "idle"
                          /\ UNCHANGED <<categoryBatchCalls, current_end,
                                         batchCalls, attempt,
                                         b_start, b_end, batchResult, requests,
                                         delays, slept, responses, lastKind>>
       ELSE /\ ppc' = "Failure"
            /\ fetchResult' = PartialFailureResult(all_candles)
            /\ bpc' = "idle"
            /\ UNCHANGED <<categoryBatchCalls, current_start, current_end,
                           all_candles, batchCalls, batchPacing, attempt, b_start, b_end, batchResult,
                           requests, delays, slept, responses, lastKind>>
  /\ UNCHANGED <<use_proxy, now_utc, klineIssued, transports, runVars, p_interval,
                 p_start, p_end>>

(***************************************************************************)
(* SpecFetch: fetch_candle_data_with_retry over a family of windows.       *)
(***************************************************************************)
Labels == {intervals[i] : i \in DOMAIN intervals} \cup {"D"}

\* The widths tried for one label: around 0, one interval, the previous day,
\* and k whole batch spans for the k that keep every timestamp within MaxMs.
Widths(interval) ==
  LET m  == get_interval_minutes(interval)
      im == m * MsPerMinute
      paged == m <= (MaxMs \div MsPerMinute) \div PageLimit
      span  == IF paged THEN PageLimit * im ELSE 0
      ks    == IF paged
                 THEN {k \in 1..MaxSpans : k + 1 <= MaxMs \div span}
                 ELSE {}
  IN  {0, 1, im - 1, im, MsPerDay - 1}
      \cup UNION {{k * span - 1, k * span, k * span + 1,
                   k * span + im - 1, k * span + im} : k \in ks}

Windows ==
  UNION {{[interval |-> l, start |-> s, end |-> s + w] :
            s \in 0..MaxStartOffset, w \in Widths(l)} : l \in Labels}

InitBatchIdle ==
  /\ bpc = "idle"
  /\ attempt = 0
  /\ b_start = 0
  /\ b_end = 0
  /\ batchResult = None
  /\ requests = 0
  /\ delays = 0
  /\ slept = 0
  /\ responses = <<>>
  /\ lastKind = "none"

InitRunIdle ==
  /\ probe = "none"
  /\ date_str = 0
  /\ start_time = 0
  /\ end_time = 0
  /\ ci = 0
  /\ ii = 0
  /\ success_count = 0
  /\ runResult = "none"
  /\ fetchLog = <<>>
  /\ sinkCount = 0
  /\ sinkFailures = 0
  /\ failCount = 0
  /\ intervalDelays = 0
  /\ categoryDelays = 0
  /\ klineIssued = FALSE
  /\ categoryBatchCalls = 0
  /\ transports = {}
  /\ exitStatus = "running"
  /\ lastSink = "none"

InitFetchIdle ==
  /\ ppc = "idle"
  /\ p_interval = "1"
  /\ p_start = 0
  /\ p_end = 0
  /\ current_start = 0
  /\ current_end = 0
  /\ all_candles = <<>>
  /\ fetchResult = None
  /\ batchCalls = <<>>
  /\ batchPacing = 0

InitFetch ==
  /\ use_proxy \in BOOLEAN
  /\ now_utc = 0
  /\ opc = "idle"
  /\ InitRunIdle
  /\ \E w \in Windows :
       /\ p_interval = w.interval
       /\ p_start = w.start
       /\ p_end = w.end
  /\ ppc = "entry"
  /\ current_start = 0
  /\ current_end = 0
  /\ all_candles = <<>>
  /\ fetchResult = None
  /\ batchCalls = <<>>
  /\ batchPacing = 0
  /\ InitBatchIdle

NextFetch ==
  \/ fetch_candle_data_with_retry
  \/ fetch_single_batch
  \/ SingleBatchReturn
  \/ PaginationStep

SpecFetch == InitFetch /\ [][NextFetch]_vars

(***************************************************************************)
(* fetch_all_data                                                          *)
(***************************************************************************)
\* total_requests = len(self.categories) * len(self.intervals)
total_requests == Len(categories) * Len(intervals)

\* A count of every window, saved or not.
CountSuccess_Always(count, saved) == count + 1

\* `if self.save_data_efficiently(...): success_count += 1`
CountSuccess(count, saved) == IF saved THEN count + 1 ELSE count

\* Inner loop that leaves out the last interval of every category.
NextPosition_SkipsLast(c, i) ==
  IF i < Len(intervals) - 1 THEN [ci |-> c, ii |-> i + 1, done |-> FALSE]
  ELSE IF c < Len(categories) THEN [ci |-> c + 1, ii |-> 1, done |-> FALSE]
  ELSE [ci |-> c, ii |-> i, done |-> TRUE]

\* The loops' next position after pair (c, i); done after the last pair.
NextPosition(c, i) ==
  IF i < Len(intervals) THEN [ci |-> c, ii |-> i + 1, done |-> FALSE]
  ELSE IF c < Len(categories) THEN [ci |-> c + 1, ii |-> 1, done |-> FALSE]
  ELSE [ci |-> c, ii |-> i, done |-> TRUE]

\* Lines 295-307: the connectivity probe (test_server_time) and the window.
\* The proxied transport never raises; an exception of the direct client is
\* caught neither by test_server_time nor by fetch_all_data.
test_server_time ==
  /\ opc = "start"
  /\ \E net \in ProbeOutcomes :
       LET via  == ProbeTransport(use_proxy)
           call == IF via = "relayed" THEN Returned(make_request(net))
                                      ELSE session_call(net)
       IN  IF call.raised
             THEN /\ probe' = "raised"
                  /\ opc' = "raised"
                  /\ UNCHANGED <<date_str, start_time, end_time, ci, ii,
                                 runResult>>
             ELSE IF call.response.retCode = 0
                    THEN \E now \in Nows :
                           LET w == get_previous_day_timestamps(now) IN
                             /\ probe' = "ok"
                             /\ opc' = "loop"
                             /\ date_str' = w.date_str
                             /\ start_time' = w.start_time
                             /\ end_time' = w.end_time
                             /\ ci' = 1
                             /\ ii' = 1
                             /\ UNCHANGED runResult
                    ELSE /\ probe' = "failed"
                         /\ opc' = "done"
                         /\ runResult' = "False"
                         /\ UNCHANGED <<date_str, start_time, end_time, ci, ii>>
  /\ success_count' = 0
  /\ transports' = transports \cup {ProbeTransport(use_proxy)}
  /\ UNCHANGED <<use_proxy, now_utc, categoryBatchCalls, klineIssued, fetchLog,
                 sinkCount, sinkFailures, failCount, intervalDelays, categoryDelays, exitStatus,
                 lastSink, fetchVars, batchVars>>

\* Lines 309-318: the loops reach the call of fetch_candle_data_with_retry.
CallFetch ==
  /\ opc = "loop"
  /\ opc' = "fetching"
  /\ ppc' = "entry"
  /\ p_interval' = intervals[ii]
  /\ p_start' = start_time
  /\ p_end' = end_time
  /\ fetchLog' = Append(fetchLog, <<category_value[categories[ci]], intervals[ii]>>)
  /\ categoryBatchCalls' = IF ii = 1 THEN 0 ELSE categoryBatchCalls
  /\ lastSink' = "none"
  /\ UNCHANGED <<use_proxy, now_utc, klineIssued, transports, probe, date_str,
                 start_time, end_time, ci, ii, success_count, runResult,
                 sinkCount, sinkFailures, failCount, intervalDelays, categoryDelays, exitStatus,
                 current_start, current_end, all_candles, fetchResult,
                 batchCalls, batchPacing, batchVars>>

\* fetch_all_data's return value, as runResult holds it.
ReturnValue(b) == IF b THEN "True" ELSE "False"

\* The locals of fetch_candle_data_with_retry and _fetch_single_batch are gone
\* once the result is taken.
ReturnedFrames ==
  /\ ppc' = "idle"
  /\ p_interval' = "1"
  /\ p_start' = 0
  /\ p_end' = 0
  /\ current_start' = 0
  /\ current_end' = 0
  /\ all_candles' = <<>>
  /\ fetchResult' = None
  /\ batchCalls' = <<>>
  /\ batchPacing' = 0
  /\ bpc' = "idle"
  /\ attempt' = 0
  /\ b_start' = 0
  /\ b_end' = 0
  /\ batchResult' = None
  /\ requests' = 0
  /\ delays' = 0
  /\ slept' = 0
  /\ responses' = <<>>
  /\ lastKind' = "none"

\* The category delay slept inside the inner loop.
InnerLoopEnds_EveryInterval(i) == TRUE

\* The inner loop is left after the last interval, and time.sleep(0.5) runs.
InnerLoopEnds(i) == i = Len(intervals)

\* A result with an empty series treated like a failed fetch.
FetchSucceeded_NonEmpty(response) == IsOk(response) /\ response.list # <<>>

\* `if response and response['retCode'] == 0`: the Persistence Sink is called.
FetchSucceeded(response) == IsOk(response)

\* Lines 320-336: the window's result is handled, the pacing delays are
\* slept, and the loops move on or the run returns.
HandleFetchResult ==
  /\ opc = "fetching"
  /\ ppc \in {"Success", "Failure"}
  /\ \E ioOk \in BOOLEAN :
       LET ok    == FetchSucceeded(fetchResult)
           saved == ok /\ save_data_efficiently(fetchResult.list, ioOk)
           count == CountSuccess(success_count, saved)
           next  == NextPosition(ci, ii)
       IN  /\ success_count' = count
           /\ sinkCount' = IF ok THEN sinkCount + 1 ELSE sinkCount
           /\ sinkFailures' = IF ok /\ ~saved THEN sinkFailures + 1
                                              ELSE sinkFailures
           /\ failCount' = IF ok THEN failCount ELSE failCount + 1
           /\ lastSink' = IF ~ok THEN "skipped"
                          ELSE IF fetchResult.list = <<>> THEN "empty"
                          ELSE IF saved THEN "saved"
                          ELSE "unsaved"
           /\ intervalDelays' = intervalDelays + 1
           /\ categoryDelays' = IF InnerLoopEnds(ii) THEN categoryDelays + 1
                                                     ELSE categoryDelays
           /\ ci' = next.ci
           /\ ii' = next.ii
           /\ opc' = IF next.done THEN "done" ELSE "loop"
           /\ runResult' = IF next.done THEN ReturnValue(count = total_requests)
                                        ELSE runResult
  /\ ReturnedFrames
  /\ UNCHANGED <<use_proxy, now_utc, categoryBatchCalls, klineIssued, transports,
                 probe, date_str, start_time, end_time, fetchLog, exitStatus>>

(***************************************************************************)
(* main                                                                    *)
(***************************************************************************)
\* exit(0) when fetch_all_data returned True, exit(1) when it returned False;
\* an exception that leaves fetch_all_data leaves main too, and the
\* interpreter ends the process with status 1.
ExitStatusOf(pc, result) ==
  IF pc = "done" /\ result = "True" THEN "0" ELSE "1"

\* Lines 345-352, after fetch_all_data has returned or raised.
main ==
  /\ opc \in {"done", "raised"}
  /\ exitStatus = "running"
  /\ exitStatus' = ExitStatusOf(opc, runResult)
  /\ UNCHANGED <<use_proxy, now_utc, categoryBatchCalls, klineIssued, transports,
                 opc, probe, date_str, start_time, end_time, ci, ii, success_count, runResult, fetchLog,
                 sinkCount, sinkFailures, failCount, intervalDelays,
                 categoryDelays, lastSink, fetchVars, batchVars>>

(***************************************************************************)
(* Spec: one run of fetch_all_data, from the constructed fetcher.          *)
(***************************************************************************)
Init ==
  /\ use_proxy \in BOOLEAN
  /\ now_utc = 0
  /\ opc = "start"
  /\ InitRunIdle
  /\ InitFetchIdle
  /\ InitBatchIdle

Next ==
  \/ test_server_time
  \/ CallFetch
  \/ HandleFetchResult
  \/ main
  \/ fetch_candle_data_with_retry
  \/ fetch_single_batch
  \/ SingleBatchReturn
  \/ PaginationStep

Spec == Init /\ [][Next]_vars

(***************************************************************************)
(* SpecWindow: get_previous_day_timestamps on its own, with the clock read *)
(* at any of a family of instants.                                         *)
(***************************************************************************)
\* Times of day, in ms: around midnight, the second, minute, hour and noon.
TimesOfDay ==
  {0, 1, 999, 1000, 59999, 60000, 3599999, 3600000, 43199999, 43200000,
   86399000, 86399998, 86399999}

\* What datetime.now(timezone.utc) may read.
ClockInstants == {d * MsPerDay + t : d \in 1..MaxClockDay, t \in TimesOfDay}

\* Line 96: the clock has been read.
InitWindow ==
  /\ use_proxy \in BOOLEAN
  /\ now_utc \in ClockInstants
  /\ opc = "window"
  /\ InitRunIdle
  /\ InitFetchIdle
  /\ InitBatchIdle

\* Lines 97-107: the window of the previous day is computed and returned.
WindowReturn ==
  /\ opc = "window"
  /\ LET w == get_previous_day_timestamps(now_utc) IN
       /\ date_str' = w.date_str
       /\ start_time' = w.start_time
       /\ end_time' = w.end_time
  /\ opc' = "windowed"
  /\ UNCHANGED <<use_proxy, now_utc, categoryBatchCalls, klineIssued, transports,
                 probe, ci, ii,
                 success_count, runResult, fetchLog, sinkCount, sinkFailures,
                 failCount, intervalDelays, categoryDelays, exitStatus,
                 lastSink, fetchVars, batchVars>>

NextWindow == WindowReturn

SpecWindow == InitWindow /\ [][NextWindow]_vars

(***************************************************************************)
(* Properties.                                                             *)
(***************************************************************************)
Last(seq) == seq[Len(seq)]

CeilDiv(a, b) == (a + b - 1) \div b

\* intervalMs of the window in hand, from the lookup table.
IntervalMs == get_interval_minutes(p_interval) * MsPerMinute

\* candlesNeeded = floor((endMs - startMs) / intervalMs)
CandlesNeeded == (p_end - p_start) \div IntervalMs

\* fetch_candle_data_with_retry has returned.
ControllerReturned == ppc \in {"Success", "Failure"}

\* A call of the Batch Fetcher is under way or has just ended.
InBatch == bpc \in {"Requesting", "Succeeded", "Failed"}

\* C1: a retryable code on attempts 1 and 2 leads to a third attempt; OK on
\* attempt 3 then gives Succeeded (after two 5 s delays), a third retryable
\* code gives Failed; a fatal code on attempt 1 gives Failed after exactly
\* one request and no delay.
C1_RetryOutcomes ==
  InBatch =>
    /\ responses = <<"retryable">> =>
          bpc = "Requesting" /\ delays = 1
    /\ responses = <<"retryable", "retryable">> =>
          bpc = "Requesting" /\ delays = 2
    /\ responses = <<"retryable", "retryable", "ok">> =>
          /\ bpc = "Succeeded"
          /\ IsOk(batchResult)
          /\ requests = 3
          /\ delays = 2
          /\ slept = 10
    /\ responses = <<"retryable", "retryable", "retryable">> =>
          bpc = "Failed" /\ batchResult = None /\ requests = 3
    /\ (responses # <<>> /\ responses[1] = "fatal") =>
          /\ bpc = "Failed"
          /\ batchResult = None
          /\ requests = 1
          /\ delays = 0
          /\ slept = 0

C1_Witness ==
  /\ bpc = "Succeeded"
  /\ responses = <<"retryable", "retryable", "ok">>
  /\ slept = 10

\* C2: a window with candlesNeeded <= 1000 (0 included) is resolved by exactly
\* one Batch Fetcher call, over [startMs, endMs], and the call's outcome is
\* returned unchanged.
C2_SingleBatch ==
  (ppc \notin {"idle", "entry"} /\ CandlesNeeded <= PageLimit) =>
    /\ batchCalls = <<<<p_start, p_end>>>>
    /\ ControllerReturned =>
          /\ fetchResult = batchResult
          /\ (ppc = "Success") = (batchResult # None)

C2_Witness ==
  /\ ppc = "Success"
  /\ CandlesNeeded = 0
  /\ batchCalls = <<<<p_start, p_end>>>>
  /\ Len(fetchResult.list) = 1

\* C3 as stated: a paginated window whose sub-windows all succeed takes
\* exactly ceil(candlesNeeded / 1000) Batch Fetcher calls.
C3_CallsByCandles ==
  (ppc = "Success" /\ CandlesNeeded > PageLimit) =>
    Len(batchCalls) = CeilDiv(CandlesNeeded, PageLimit)

\* C3 amended: it takes exactly ceil((endMs - startMs) / (1000 * intervalMs))
\* calls.
C3_CallsBySpan ==
  (ppc = "Success" /\ CandlesNeeded > PageLimit) =>
    Len(batchCalls) = CeilDiv(p_end - p_start, PageLimit * IntervalMs)

C3_Witness ==
  /\ ppc = "Success"
  /\ CandlesNeeded = 2 * PageLimit
  /\ Len(batchCalls) = 3

\* The sub-windows requested so far, as closed intervals [start, end].
SubStart(i) == batchCalls[i][1]
SubEnd(i) == batchCalls[i][2]
Chained ==
  /\ SubStart(1) = p_start
  /\ \A i \in 1..Len(batchCalls) - 1 : SubStart(i + 1) = SubEnd(i)
  /\ \A i \in 1..Len(batchCalls) :
       /\ SubStart(i) < SubEnd(i)
       /\ SubEnd(i) - SubStart(i) <= PageLimit * IntervalMs
       /\ SubEnd(i) <= p_end
  /\ ppc = "Success" => SubEnd(Len(batchCalls)) = p_end

\* C4 as stated: the sub-windows of the paginated path are chained from
\* startMs to endMs, none wider than 1000 * intervalMs, and no timestamp
\* belongs to two of them.
C4_Disjoint ==
  (ppc \in {"paged", "Success"} /\ CandlesNeeded > PageLimit) =>
    /\ Chained
    /\ \A i, j \in 1..Len(batchCalls) : i < j => SubEnd(i) < SubStart(j)

\* C4 amended: the sub-windows are chained from startMs to endMs, none wider
\* than 1000 * intervalMs, and the only timestamp that belongs to two of them
\* is the boundary two consecutive ones share.
C4_SharedBoundaryOnly ==
  (ppc \in {"paged", "Success"} /\ CandlesNeeded > PageLimit) =>
    /\ Chained
    /\ \A i, j \in 1..Len(batchCalls) :
         i < j => IF j = i + 1 THEN SubEnd(i) = SubStart(j)
                               ELSE SubEnd(i) < SubStart(j)

C4_Witness ==
  /\ ppc = "Success"
  /\ Len(batchCalls) = 3
  /\ SubEnd(1) = SubStart(2)
  /\ SubEnd(3) = p_end
  /\ SubEnd(3) - SubStart(3) < PageLimit * IntervalMs

StrictlyAscending(seq) == \A i \in 1..Len(seq) - 1 : seq[i] < seq[i + 1]

\* C5: every series returned as Success is strictly ascending by openTimeMs,
\* so it holds no open time twice.
C5_StrictlyAscending ==
  ppc = "Success" => StrictlyAscending(fetchResult.list)

\* C6: in the paginated path a failed sub-window ends the window at once: the
\* next step returns Failure (None, not the candles gathered so far) without
\* another request, and nothing follows the Failure.
C6_AbortOnFailure ==
  [][/\ ppc # "Failure"
     /\ (ppc = "paged" /\ bpc = "Failed") =>
           /\ ppc' = "Failure"
           /\ fetchResult' = None
           /\ bpc' = "idle"
           /\ batchCalls' = batchCalls
           /\ requests' = requests]_vars

C6_Witness ==
  /\ ppc = "Failure"
  /\ Len(batchCalls) = 2
  /\ all_candles # <<>>
  /\ fetchResult = None

\* A request of the call in hand ended in a transport failure: a non-200
\* status or a transport exception.
TransportFailed == InBatch /\ lastKind \in {"http", "exception"}

FatalAtOnce ==
  /\ bpc = "Failed"
  /\ batchResult = None
  /\ delays = requests - 1

\* C7 as stated: in both variants a transport failure whose normalized code
\* is not retryable fails the batch at once, without retry or delay.
C7_TransportFailureFatal ==
  (TransportFailed /\ Last(responses) # "retryable") => FatalAtOnce

\* C7 amended: in the relayed variant a transport failure is normalized to a
\* code (the HTTP status, or -1) and, that code not being retryable, fails the
\* batch at once without retry or delay; in the direct variant the client
\* raises, and the attempt is retried after the fixed delay while attempts
\* remain.
C7_TransportFailureByVariant ==
  TransportFailed =>
    IF use_proxy
      THEN Last(responses) # "retryable" => FatalAtOnce
      ELSE /\ Last(responses) = "raised"
           /\ IF requests < max_custom_retries
                THEN bpc = "Requesting" /\ delays = requests
                ELSE FatalAtOnce

C7_Witness ==
  /\ ~use_proxy
  /\ lastKind = "exception"
  /\ bpc = "Requesting"
  /\ requests = 1
  /\ delays = 1

\* The connectivity probe has been made and did not succeed.
ProbeNotSucceeded == probe \in {"failed", "raised"}

\* C8: when the connectivity probe does not succeed, fetch_all_data returns
\* false, and no kline request and no Persistence Sink call is made.
C8_ProbeFailureReturnsFalse ==
  ProbeNotSucceeded =>
    /\ runResult = "False"
    /\ ~klineIssued
    /\ fetchLog = <<>>
    /\ sinkCount = 0

\* The configured cross-product, category by category, interval by interval.
NumCategories == Len(categories)
NumIntervals == Len(intervals)
AllPairs ==
  [k \in 1..NumCategories * NumIntervals |->
     <<category_value[categories[((k - 1) \div NumIntervals) + 1]],
       intervals[((k - 1) % NumIntervals) + 1]>>]

\* C9: after a successful probe the Pagination Controller is called once for
\* each pair of the cross-product, in order, whatever windows fail: the calls
\* made so far are a prefix of the cross-product, and all of it at the return.
C9_EveryPairOnce ==
  probe = "ok" =>
    /\ Len(fetchLog) <= Len(AllPairs)
    /\ fetchLog = SubSeq(AllPairs, 1, Len(fetchLog))
    /\ Len(fetchLog) = failCount + sinkCount + (IF opc = "fetching" THEN 1 ELSE 0)
    /\ opc = "done" => fetchLog = AllPairs
    /\ opc # "done" => runResult = "none"

C9_Witness ==
  /\ opc = "done"
  /\ probe = "ok"
  /\ fetchLog = AllPairs
  /\ failCount > 1
  /\ sinkCount > 1

\* The run passed the probe and has returned.
RunEnded == probe = "ok" /\ opc = "done"

\* C10 as stated: at the end of the run successCount = C*I - f, and the result
\* is false whenever f > 0.
C10_CountByFetchFailures ==
  RunEnded =>
    /\ success_count = NumCategories * NumIntervals - failCount
    /\ failCount > 0 => runResult = "False"

\* C10 amended: successCount = C*I - f - e, where e is the number of windows
\* fetched with Success whose Persistence Sink call reported failure, and the
\* result is false whenever f > 0.
C10_CountByFetchAndSinkFailures ==
  RunEnded =>
    /\ success_count = NumCategories * NumIntervals - failCount - sinkFailures
    /\ failCount > 0 => runResult = "False"

C10_Witness ==
  /\ RunEnded
  /\ failCount > 0
  /\ sinkFailures > 0
  /\ success_count > 0
  /\ runResult = "False"

\* Every pair of the cross-product was fetched with Success and persisted.
AllFetchedAndPersisted ==
  /\ probe = "ok"
  /\ Len(fetchLog) = NumCategories * NumIntervals
  /\ failCount = 0
  /\ sinkCount = NumCategories * NumIntervals
  /\ sinkFailures = 0

\* C11: fetch_all_data returns true and the process exits with 0 if and only
\* if the probe succeeded and every pair was fetched with Success and
\* persisted; in every other case it returns false and the process exits
\* with 1.
C11_ExitContract ==
  exitStatus # "running" =>
    IF AllFetchedAndPersisted
      THEN runResult = "True" /\ exitStatus = "0"
      ELSE runResult = "False" /\ exitStatus = "1"

\* C12: the Persistence Sink is called for a pair if and only if that pair's
\* window fetch returned Success, an empty series included; a failed window
\* never produces a sink call, and no pair produces more than one.
C12_SinkIffSuccess ==
  [][ /\ (sinkCount' # sinkCount) =>
           /\ opc = "fetching" /\ ppc = "Success"
           /\ sinkCount' = sinkCount + 1
           /\ fetchLog' = fetchLog
      /\ (opc = "fetching" /\ ppc = "Success" /\ opc' # "fetching") =>
           sinkCount' = sinkCount + 1
      /\ (opc = "fetching" /\ ppc = "Failure" /\ opc' # "fetching") =>
           sinkCount' = sinkCount
      /\ sinkCount' <= Len(fetchLog') ]_vars

\* One failed window without a sink call, then a Success with an empty series
\* with one.
C12_Witness ==
  /\ opc = "loop"
  /\ Len(fetchLog) = 2
  /\ failCount = 1
  /\ sinkCount = 1
  /\ lastSink = "empty"

\* C13: the transport variant is fixed at construction and never changes:
\* the probe and every batch request of a run go through the same variant,
\* the one the fetcher was constructed with.
C13_OneTransport ==
  /\ transports \subseteq {IF use_proxy THEN "relayed" ELSE "direct"}
  /\ (probe # "none" \/ klineIssued) => Cardinality(transports) = 1

\* A whole relayed run, probe and kline requests.
C13_Witness ==
  /\ opc = "done"
  /\ probe = "ok"
  /\ klineIssued
  /\ use_proxy
  /\ transports = {"relayed"}

\* The UTC day, counted from the epoch, that an instant lies in.
UtcDay(ms) == ms \div MsPerDay

C15_BoundedAttempts ==
  bpc # "idle" =>
    /\ requests = Len(responses)
    /\ requests <= 3
    /\ slept = custom_retry_delay * delays
    /\ bpc = "Requesting" =>
         /\ requests < 3
         /\ delays = requests
         /\ ENABLED fetch_single_batch
    /\ bpc \in {"Succeeded", "Failed"} =>
         /\ requests >= 1
         /\ delays = requests - 1
         /\ ~ ENABLED fetch_single_batch

\* A call that used all three attempts and slept twice.
C15_Witness ==
  /\ bpc = "Failed"
  /\ requests = 3
  /\ delays = 2
  /\ responses = <<"retryable", "raised", "retryable">>

\* C16: an exception of the transport inside the Batch Fetcher is retried
\* after the fixed delay while attempts remain: an exception on all three
\* attempts gives Failed after exactly 3 requests, an exception on attempt 1
\* followed by OK on attempt 2 gives Succeeded.
C16_ExceptionRetried ==
  bpc # "idle" =>
    /\ \A i \in 1..Len(responses) :
         (responses[i] = "raised" /\ i < 3) =>
           /\ Len(responses) > i \/ bpc = "Requesting"
           /\ delays >= i
           /\ slept >= i * custom_retry_delay
    /\ responses = <<"raised", "raised", "raised">> =>
         /\ bpc = "Failed"
         /\ batchResult = None
         /\ requests = 3
    /\ responses = <<"raised", "ok">> =>
         /\ bpc = "Succeeded"
         /\ IsOk(batchResult)
         /\ requests = 2
         /\ delays = 1

\* An exception on attempt 1, then OK on attempt 2.
C16_Witness ==
  /\ responses = <<"raised", "ok">>
  /\ bpc = "Succeeded"
  /\ slept = custom_retry_delay

\* The pairs whose result fetch_all_data has handled so far.
PairsHandled == Len(fetchLog) - (IF opc = "fetching" THEN 1 ELSE 0)

\* C17: in a run that passed the probe, exactly one interval pacing delay is
\* slept after each pair's fetch and one category delay after each category's
\* last interval, whether the pair succeeded or failed; a full run sleeps
\* C * I interval delays and C category delays.
C17_PacingDelays ==
  IF probe = "ok"
    THEN /\ intervalDelays = PairsHandled
         /\ intervalDelays = sinkCount + failCount
         /\ categoryDelays = PairsHandled \div NumIntervals
         /\ opc = "done" =>
              /\ intervalDelays = NumCategories * NumIntervals
              /\ categoryDelays = NumCategories
    ELSE intervalDelays = 0 /\ categoryDelays = 0

\* A full run with failed, unsaved and saved windows.
C17_Witness ==
  /\ RunEnded
  /\ intervalDelays = 20
  /\ categoryDelays = 2
  /\ failCount > 0
  /\ success_count > 0
  /\ sinkFailures > 0

\* The window in hand takes, or took, the paginated path.
OnPaginatedPath ==
  \/ ppc = "paged"
  \/ ControllerReturned /\ CandlesNeeded > PageLimit

\* C18: the pagination loop always terminates: for every window with
\* startMs <= endMs and every interval label, known or unknown, the cursor
\* strictly increases on each successful iteration and never exceeds endMs,
\* and the loop ends with the cursor at endMs or aborts on the first failed
\* sub-window.
C18_LoopTerminates ==
  /\ [](OnPaginatedPath =>
          /\ p_start <= current_start
          /\ current_start <= p_end
          /\ current_end <= p_end
          /\ Len(batchCalls) <= CeilDiv(p_end - p_start, PageLimit * IntervalMs)
          /\ ppc = "paged" =>
               /\ current_start < current_end
               /\ current_start = SubStart(Len(batchCalls))
               /\ bpc = "Requesting" \/ ENABLED PaginationStep
          /\ ppc = "Success" => current_start = p_end
          /\ ppc = "Failure" =>
               /\ current_start < p_end
               /\ fetchResult = None)
  /\ [][
          /\ (ppc = "paged" /\ batchPacing' # batchPacing) =>
               /\ bpc = "Succeeded"
               /\ current_start < current_start'
               /\ current_start' <= p_end
          /\ (ppc = "paged" /\ bpc = "Failed") =>
               /\ ppc' = "Failure"
               /\ current_start' = current_start
               /\ batchCalls' = batchCalls ]_vars

\* A window of an unknown label walked to its end in three sub-windows.
C18_Witness ==
  /\ ppc = "Success"
  /\ p_interval = "D"
  /\ Len(batchCalls) = 3
  /\ current_start = p_end

\* C19: a window whose fetch returns Success with an empty series is not
\* counted in success_count (the Persistence Sink writes nothing and reports
\* failure), so one such window makes the whole run return false although no
\* window fetch failed.
C19_EmptySeriesNotCounted ==
  /\ lastSink = "empty" =>
       /\ sinkFailures >= 1
       /\ success_count <= PairsHandled - failCount - 1
  /\ (probe = "ok" /\ sinkFailures >= 1) =>
       /\ success_count < total_requests
       /\ opc = "done" => runResult = "False"
       /\ exitStatus # "0"

\* A run in which every fetch returned Success and every write worked, and
\* the series of the last window was empty.
C19_Witness ==
  /\ RunEnded
  /\ failCount = 0
  /\ lastSink = "empty"
  /\ sinkFailures = 1
  /\ success_count = total_requests - 1
  /\ runResult = "False"

\* The two sub-windows of the previous day at the 1 minute interval.
DaySubWindows ==
  <<<<start_time, start_time + 60000000>>, <<start_time + 60000000, end_time>>>>

\* C20: for the previous-day window (86399999 ms wide) and the ten
\* intervals, only interval "1" takes the paginated path, with exactly the
\* two sub-windows [startMs, startMs + 60000000] and
\* [startMs + 60000000, endMs]; every other interval is fetched with a single
\* Batch Fetcher call, so an all-success run issues 11 Batch Fetcher calls
\* per category.
C20_DayBatches ==
  /\ (opc = "fetching" /\ ppc # "entry") =>
       /\ p_end - p_start = 86399999
       /\ IF p_interval = "1"
            THEN /\ ppc \in {"paged", "Success", "Failure"}
                 /\ Len(batchCalls) \in {1, 2}
                 /\ batchCalls = SubSeq(DaySubWindows, 1, Len(batchCalls))
                 /\ ppc = "Success" => batchCalls = DaySubWindows
            ELSE /\ ppc \in {"single", "Success", "Failure"}
                 /\ batchCalls = <<<<start_time, end_time>>>>
  /\ ( /\ probe = "ok"
       /\ failCount = 0
       /\ opc \in {"loop", "done"}
       /\ PairsHandled > 0
       /\ PairsHandled % NumIntervals = 0 ) => categoryBatchCalls = 11

\* The second category of an all-success run has ended.
C20_Witness ==
  /\ RunEnded
  /\ failCount = 0
  /\ categoryBatchCalls = 11
  /\ runResult = "True"

====
